---- MODULE Spec2Model ----
(***************************************************************************)
(* A model of kinda_tidy's categorical releveling                          *)
(* (kinda-tidy/src/kinda_tidy.py): set_categorical on a data frame and on  *)
(* a grouped data frame.  Further down, each with a specification of its   *)
(* own over the same variables: select_columns, select_rows, equisample,   *)
(* fortify (kinda_tidy_fortify.py), mean_weighted, kmgt_labels and         *)
(* quarter_labels (plotnine_utils.py), flatten_columns and                 *)
(* reverse_categories.                                                     *)
(*                                                                         *)
(* A data frame is a sequence of rows.  Every row carries its index label  *)
(* (idx), a grouping column (grp), the column that is releveled (cat) and  *)
(* a numeric column (val).  The releveled column is either of dtype        *)
(* "object" (plain strings) or of dtype "category"; a categorical column   *)
(* carries its ordered levels (categories), which may hold levels that no  *)
(* row uses.                                                               *)
(*                                                                         *)
(* pandas behaviour the code relies on, as modelled here (pandas 1.x, the  *)
(* version the code's is_categorical_dtype / inplace= calls belong to):    *)
(*   - groupby(col) lists its groups in ascending key order;               *)
(*   - sort_values(one column, ascending=False) reverses, argsorts and     *)
(*     reverses again, and numpy's default argsort is an insertion sort    *)
(*     on the at most 16 groups of the tables modelled here, so equal      *)
(*     aggregates keep the order groupby gave them;                        *)
(*   - sort_values(several columns) is a stable lexicographic sort;        *)
(*   - pd.unique keeps the first occurrence of every value;                *)
(*   - pd.Categorical(values) takes the sorted distinct values as levels.  *)
(***************************************************************************)
EXTENDS Integers, Sequences, FiniteSets, TLC

VARIABLES df, call, res

vars == <<df, call, res>>

(***************************************************************************)
(* Bounds of the model and the data the tables are drawn from.             *)
(***************************************************************************)
MaxRows == 3
MaxTopN == 3

Cats == {"a", "b", "c"}
Groups == {"g1", "g2"}
Values == {1, 2, 3}
Aggregators == {"sum", "mean"}
OtherLabels == {"_other", "new_label"}

\* Python compares strings by code point: '_' sorts before the lower-case letters.
LabelOrder == <<"_other", "a", "b", "c", "g1", "g2", "new_label", "unused">>

RankTable ==
  [s \in {LabelOrder[i] : i \in 1..Len(LabelOrder)} |->
     CHOOSE i \in 1..Len(LabelOrder) : LabelOrder[i] = s]

Rank(s) == RankTable[s]

StrLess(a, b) == Rank(a) < Rank(b)

NoneN == -1

(***************************************************************************)
(* Sequences.                                                              *)
(***************************************************************************)
Range(s) == {s[i] : i \in 1..Len(s)}

\* The sequence s as an explicit tuple (its elements are evaluated once).
Tuple(s) == s \o <<>>

Reverse(s) == Tuple([i \in 1..Len(s) |-> s[Len(s) + 1 - i]])

\* s[:n] of Python, for n >= 0.
Prefix(s, n) == IF n >= Len(s) THEN s ELSE SubSeq(s, 1, n)

IsInjective(s) == \A i, j \in 1..Len(s) : s[i] = s[j] => i = j

\* Position of x in s (x occurs in s).
IndexOf(s, x) == CHOOSE i \in 1..Len(s) : s[i] = x /\ \A j \in 1..(i - 1) : s[j] # x

\* The stable sort of the positions 1..n by a strict weak order, given as the
\* matrix before[i][j]: position i sorts before position j.
StableOrder(n, before) ==
  LET ahead == Tuple([i \in 1..n |->
                  Cardinality({j \in 1..n : before[j][i] \/ (~before[i][j] /\ j < i)})])
  IN Tuple([k \in 1..n |-> CHOOSE i \in 1..n : ahead[i] = k - 1])

\* The members of a set of labels in ascending order.
SortedLabels(S) ==
  Tuple([k \in 1..Cardinality(S) |->
           CHOOSE x \in S : Cardinality({y \in S : StrLess(y, x)}) = k - 1])

RECURSIVE SumSeq(_)
SumSeq(s) == IF s = <<>> THEN 0 ELSE Head(s) + SumSeq(Tail(s))

\* Mutant: every value at its last occurrence.
RECURSIVE UniqueKeepLast(_)
UniqueKeepLast(s) ==
  IF s = <<>> THEN <<>>
  ELSE LET rest == UniqueKeepLast(Tail(s))
       IN IF Head(s) \in Range(rest) THEN rest ELSE <<Head(s)>> \o rest

\* pd.unique: the values of s, each at its first occurrence.
RECURSIVE Unique(_)
Unique(s) ==
  IF s = <<>> THEN <<>>
  ELSE LET init == Unique(SubSeq(s, 1, Len(s) - 1))
           last == s[Len(s)]
       IN IF last \in Range(init) THEN init ELSE Append(init, last)

(***************************************************************************)
(* Aggregates are rationals n/d (np.sum: d = 1; np.mean: d is the number   *)
(* of rows).  The mean of no rows is NaN, written 0/0; the sum of no rows  *)
(* is 0.                                                                   *)
(***************************************************************************)
ValuesOf(rows) == [i \in 1..Len(rows) |-> rows[i].val]

Aggregate(aggregator, rows) ==
  IF aggregator = "sum"
  THEN [n |-> SumSeq(ValuesOf(rows)), d |-> 1]
  ELSE [n |-> SumSeq(ValuesOf(rows)), d |-> Len(rows)]

IsNaN(x) == x.d = 0

AggGreater(x, y) == ~IsNaN(x) /\ ~IsNaN(y) /\ x.n * y.d > y.n * x.d

AggEqual(x, y) == ~IsNaN(x) /\ ~IsNaN(y) /\ x.n * y.d = y.n * x.d

AggGeq(x, y) == AggGreater(x, y) \/ AggEqual(x, y)

\* sort_values(ascending=False) lists x before y: the larger first, NaN last.
SortsBefore(x, y) == ~IsNaN(x) /\ (IsNaN(y) \/ AggGreater(x, y))

(***************************************************************************)
(* Data frames.                                                            *)
(***************************************************************************)
RowsWithCat(rows, c) == SelectSeq(rows, LAMBDA r : r.cat = c)

RowsWithGrp(rows, g) == SelectSeq(rows, LAMBDA r : r.grp = g)

CatsOf(rows) == {rows[i].cat : i \in 1..Len(rows)}

GrpsOf(rows) == {rows[i].grp : i \in 1..Len(rows)}

IndexLabels(rows) == [i \in 1..Len(rows) |-> rows[i].idx]

\* The codes of a categorical column: the position of every value in the levels.
Codes(t) == [i \in 1..Len(t.rows) |-> IndexOf(t.categories, t.rows[i].cat)]

\* astype(str) of a categorical column: every code becomes its level's label,
\* and the levels are gone.
AsTypeStr(t) ==
  LET codes == Codes(t)
  IN [rows |-> Tuple([i \in 1..Len(t.rows) |->
                        [t.rows[i] EXCEPT !.cat = t.categories[codes[i]]]]),
      dtype |-> "object",
      categories |-> <<>>]

\* pd.Categorical(values, categories=levels) assigned to the column.
AsCategorical(rows, levels) ==
  [rows |-> rows, dtype |-> "category", categories |-> levels]

\* The keys of groupby(category_col), in the order groupby lists them: the
\* distinct values in ascending order for a string column; for a categorical
\* column the levels in their own order, all of them unless observed=True.
GroupbyKeys(t, observed) ==
  IF t.dtype = "category"
  THEN SelectSeq(t.categories, LAMBDA c : ~observed \/ c \in CatsOf(t.rows))
  ELSE SortedLabels(CatsOf(t.rows))

(***************************************************************************)
(* set_categorical on a data frame.                                        *)
(***************************************************************************)


\* Mutant: the groups sorted with the smallest aggregate first.
sort_for_categories_ascending(t, aggregator) ==
  LET keys == GroupbyKeys(t, FALSE)
      agg == Tuple([k \in 1..Len(keys) |-> Aggregate(aggregator, RowsWithCat(t.rows, keys[k]))])
      before == Tuple([i \in 1..Len(keys) |-> Tuple([j \in 1..Len(keys) |->
                  SortsBefore(agg[j], agg[i])])])
      order == StableOrder(Len(keys), before)
  IN Tuple([k \in 1..Len(keys) |-> keys[order[k]]])

\* groupby(category_col).agg({value_col: aggregator}).reset_index()
\*   .sort_values(value_col, ascending=False): the category labels, the
\* largest aggregate first.
sort_for_categories(t, aggregator) ==
  LET keys == GroupbyKeys(t, FALSE)
      agg == Tuple([k \in 1..Len(keys) |-> Aggregate(aggregator, RowsWithCat(t.rows, keys[k]))])
      before == Tuple([i \in 1..Len(keys) |-> Tuple([j \in 1..Len(keys) |->
                  SortsBefore(agg[i], agg[j])])])
      order == StableOrder(Len(keys), before)
  IN Tuple([k \in 1..Len(keys) |-> keys[order[k]]])


\* Mutant: one level too many is retained.
top_categories_off_by_one(sort_data, top_n) ==
  IF top_n = NoneN THEN sort_data ELSE Prefix(sort_data, top_n + 1)

\* Mutant: one level too few is retained.
top_categories_one_short(sort_data, top_n) ==
  IF top_n = NoneN THEN sort_data
  ELSE IF top_n = 0 THEN <<>> ELSE Prefix(sort_data, top_n - 1)

\* sort_data[category_col][:top_n]   (x[:None] = x)
top_categories(sort_data, top_n) ==
  IF top_n = NoneN THEN sort_data ELSE Prefix(sort_data, top_n)


\* Mutant: the fallback label is the default one, whatever the caller asked for.
relabel_others_default_label(rows, categories, other_label) ==
  Tuple([i \in 1..Len(rows) |->
           IF rows[i].cat \in Range(categories)
           THEN rows[i]
           ELSE [rows[i] EXCEPT !.cat = "_other"]])

\* res.loc[~keep_row_mask, category_col] = other_label
relabel_others(rows, categories, other_label) ==
  Tuple([i \in 1..Len(rows) |->
           IF rows[i].cat \in Range(categories)
           THEN rows[i]
           ELSE [rows[i] EXCEPT !.cat = other_label]])

\* res[keep_row_mask]
remove_others(rows, categories) ==
  SelectSeq(rows, LAMBDA r : r.cat \in Range(categories))

\* "if top_n:" None and 0 are both false.
relabel_or_remove(t, categories, top_n, keep_other, other_label) ==
  IF top_n = NoneN \/ top_n = 0
  THEN t
  ELSE IF keep_other
       THEN [t EXCEPT !.rows = relabel_others(t.rows, categories, other_label)]
       ELSE [t EXCEPT !.rows = remove_others(t.rows, categories)]


\* Mutant: the order is not recalculated, the fallback level is slotted last.
final_categories_other_last(t, aggregator, reverse) ==
  LET kept == [t EXCEPT !.rows = SelectSeq(t.rows, LAMBDA r : r.cat \notin OtherLabels)]
      final == sort_for_categories(kept, aggregator)
                 \o SortedLabels(CatsOf(t.rows) \cap OtherLabels)
  IN IF reverse THEN Reverse(final) ELSE final

\* The order recalculated after the relabeling, reversed on request.
final_categories(t, aggregator, reverse) ==
  LET final == sort_for_categories(t, aggregator)
  IN IF reverse THEN Reverse(final) ELSE final


\* Mutant: a categorical column is not recast.
recast_to_string_skipped(t) == t

\* "if pd.api.types.is_categorical_dtype(...): astype(str)"
recast_to_string(t) == IF t.dtype = "category" THEN AsTypeStr(t) ELSE t


\* Mutant: the levels in order of first appearance (pd.unique) instead of sorted.
alphabetical_categories_unsorted(t) ==
  IF t.dtype = "category" THEN t.categories
  ELSE Unique([i \in 1..Len(t.rows) |-> t.rows[i].cat])

\* pd.Categorical(res[category_col]): the sorted distinct values are the levels
\* (a column that is categorical already would keep its levels).
alphabetical_categories(t) ==
  IF t.dtype = "category" THEN t.categories ELSE SortedLabels(CatsOf(t.rows))

\* Mutant: top_n is applied before the return of the call without a value
\* column, to the levels in alphabetical order.
set_categorical_top_n_without_value(t, a) ==
  LET recast == recast_to_string(t)
  IN IF ~a.value_col
     THEN LET categories == top_categories(alphabetical_categories(recast), a.top_n)
              kept == relabel_or_remove(recast, categories, a.top_n,
                                        a.keep_other, a.other_label)
          IN AsCategorical(kept.rows, alphabetical_categories(kept))
     ELSE LET sort_data == sort_for_categories(recast, a.aggregator)
              categories == top_categories(sort_data, a.top_n)
              kept == relabel_or_remove(recast, categories, a.top_n,
                                        a.keep_other, a.other_label)
          IN AsCategorical(kept.rows,
                           final_categories(kept, a.aggregator, a.reverse))

\* res = self.copy(); ...; return res
set_categorical(t, a) ==
  LET recast == recast_to_string(t)
  IN IF ~a.value_col
     THEN AsCategorical(recast.rows, alphabetical_categories(recast))
     ELSE LET sort_data == sort_for_categories(recast, a.aggregator)
              categories == top_categories(sort_data, a.top_n)
              kept == relabel_or_remove(recast, categories, a.top_n,
                                        a.keep_other, a.other_label)
          IN AsCategorical(kept.rows,
                           final_categories(kept, a.aggregator, a.reverse))

(***************************************************************************)
(* The calls.                                                              *)
(***************************************************************************)
NoCall == [op |-> "none", value_col |-> FALSE, aggregator |-> "sum",
           reverse |-> FALSE, top_n |-> NoneN, keep_other |-> FALSE,
           other_label |-> "_other"]

NoResult == [rows |-> <<>>, dtype |-> "none", categories |-> <<>>]

TopNs == {NoneN} \cup (0..MaxTopN)

\* The argument combinations: other_label only matters when rows are relabeled,
\* the aggregator only when there is a value column.
Arguments(op) ==
  {a \in [op : {op}, value_col : BOOLEAN, aggregator : Aggregators,
          reverse : BOOLEAN, top_n : TopNs, keep_other : BOOLEAN,
          other_label : OtherLabels] :
     /\ (a.other_label # "_other") => (a.keep_other /\ a.top_n \notin {NoneN, 0})
     /\ ~a.value_col => a.aggregator = "sum"}

\* The frames of the ungrouped calls: one group, the index 0..n-1, the column a
\* plain string column or a categorical one with some prior levels.
PriorLevels == {<<"c", "unused", "b", "a">>, <<"b", "c", "a">>}

\* (The rows are listed by ascending value, which leaves the categories of the
\* rows in every order and halves the frames to enumerate.)
UngroupedRows ==
  UNION {{[i \in 1..n |-> [idx |-> i - 1, grp |-> "g1", cat |-> c[i], val |-> v[i]]] :
            c \in [1..n -> Cats],
            v \in {w \in [1..n -> Values] : \A i \in 1..(n - 1) : w[i] <= w[i + 1]}} :
         n \in 1..MaxRows}

UngroupedFrames ==
  {[rows |-> r, dtype |-> "object", categories |-> <<>>] : r \in UngroupedRows}
  \cup {[rows |-> r, dtype |-> "category", categories |-> l] :
          r \in UngroupedRows, l \in PriorLevels}

Init ==
  /\ df \in UngroupedFrames
  /\ call = NoCall
  /\ res = NoResult

SetCategorical ==
  /\ call.op = "none"
  /\ \E a \in Arguments("set_categorical") :
       /\ call' = a
       /\ res' = set_categorical(df, a)
  /\ UNCHANGED df

Next == SetCategorical

Spec == Init /\ [][Next]_vars

(***************************************************************************)
(* set_categorical on a grouped data frame (tidy_groupby(grouping)).       *)
(***************************************************************************)
RECURSIVE Flatten(_)
Flatten(ss) == IF ss = <<>> THEN <<>> ELSE Head(ss) \o Flatten(Tail(ss))

RowsWithGrpCat(rows, g, c) == SelectSeq(rows, LAMBDA r : r.grp = g /\ r.cat = c)

\* The groups of groupby(grouping_columns), in ascending key order.
GroupKeys(rows) == SortedLabels(GrpsOf(rows))

\* The frame of one group.
GroupFrame(t, g) == [t EXCEPT !.rows = RowsWithGrp(t.rows, g)]

\* self.apply(act_on_groups): set_categorical on the frame of every group, the
\* results concatenated.  When every result kept the index of its group the
\* rows are put back in the order of the original index; otherwise they stay
\* group after group.  The concatenated column stays categorical (with the
\* levels of the first part) only when all parts have the same set of levels;
\* otherwise it is a plain string column.
apply_act_on_groups(t, a) ==
  LET keys == GroupKeys(t.rows)
      parts == Tuple([k \in 1..Len(keys) |-> set_categorical(GroupFrame(t, keys[k]), a)])
      mutated == \E k \in 1..Len(keys) :
                   IndexLabels(parts[k].rows) # IndexLabels(GroupFrame(t, keys[k]).rows)
      concat == Flatten([k \in 1..Len(keys) |-> parts[k].rows])
      reindexed == Tuple([i \in 1..Len(t.rows) |->
                            CHOOSE r \in Range(concat) : r.idx = t.rows[i].idx])
      same_levels == \A k \in 1..Len(keys) :
                       Range(parts[k].categories) = Range(parts[1].categories)
  IN [rows |-> IF mutated THEN concat ELSE reindexed,
      dtype |-> IF same_levels THEN "category" ELSE "object",
      categories |-> IF same_levels THEN parts[1].categories ELSE <<>>]

\* The (group, category) pairs of tidy_groupby(grouping_columns + [category_col],
\* observed=True), in the order groupby lists them.
GroupCategoryKeys(result) ==
  LET gkeys == GroupKeys(result.rows)
      ckeys == GroupbyKeys(result, TRUE)
      nc == Len(ckeys)
      cross == Tuple([k \in 1..(Len(gkeys) * nc) |->
                        [grp |-> gkeys[((k - 1) \div nc) + 1],
                         cat |-> ckeys[((k - 1) % nc) + 1]]])
  IN SelectSeq(cross, LAMBDA p : RowsWithGrpCat(result.rows, p.grp, p.cat) # <<>>)

\* Mutant: the pairs ordered by their own aggregate alone.
order_df_by_value_only(result, aggregator) ==
  LET keys == GroupCategoryKeys(result)
      value == [k \in 1..Len(keys) |->
                  Aggregate(aggregator, RowsWithGrpCat(result.rows, keys[k].grp, keys[k].cat))]
      before == Tuple([i \in 1..Len(keys) |-> Tuple([j \in 1..Len(keys) |->
                  SortsBefore(value[i], value[j])])])
      order == StableOrder(Len(keys), before)
  IN Tuple([k \in 1..Len(keys) |-> keys[order[k]]])

\* order_df: every (group, category) pair of the result with the aggregate of
\* its group (_group_aggregation) and its own aggregate, sorted by
\* [_group_aggregation, value_col], descending.
order_df(result, aggregator) ==
  LET keys == GroupCategoryKeys(result)
      group_aggregation ==
        Tuple([k \in 1..Len(keys) |->
                 Aggregate(aggregator, RowsWithGrp(result.rows, keys[k].grp))])
      value == Tuple([k \in 1..Len(keys) |->
                        Aggregate(aggregator, RowsWithGrpCat(result.rows, keys[k].grp, keys[k].cat))])
      before == Tuple([i \in 1..Len(keys) |-> Tuple([j \in 1..Len(keys) |->
                  \/ SortsBefore(group_aggregation[i], group_aggregation[j])
                  \/ /\ ~SortsBefore(group_aggregation[j], group_aggregation[i])
                     /\ SortsBefore(value[i], value[j])])])
      order == StableOrder(Len(keys), before)
  IN Tuple([k \in 1..Len(keys) |-> keys[order[k]]])

\* levels = pd.unique(order_df[category_col]), reversed on request.
grouped_levels(result, aggregator, reverse) ==
  LET sorted == order_df(result, aggregator)
      levels == Unique([k \in 1..Len(sorted) |-> sorted[k].cat])
  IN IF reverse THEN Reverse(levels) ELSE levels

\* grp[value_col] with value_col=None raises KeyError in the assign step.
KeyErrorRaised == [rows |-> <<>>, dtype |-> "KeyError", categories |-> <<>>]

groupby_set_categorical(t, a) ==
  LET result == apply_act_on_groups(t, a)
  IN IF ~a.value_col
     THEN KeyErrorRaised
     ELSE AsCategorical(result.rows, grouped_levels(result, a.aggregator, a.reverse))

\* The frames of the grouped calls: a plain string column, rows of the groups
\* interleaved, the index 0..n-1.  (One frame for every multiset of rows: the
\* rows are listed by ascending value, then group, then category.)
RowKey(r) == (r.val * 100) + (Rank(r.grp) * 10) + Rank(r.cat)

GroupedRows ==
  UNION {{[i \in 1..n |-> [idx |-> i - 1, grp |-> g[i], cat |-> c[i], val |-> v[i]]] :
            g \in [1..n -> Groups], c \in [1..n -> Cats],
            v \in {w \in [1..n -> Values] : \A i \in 1..(n - 1) : w[i] <= w[i + 1]}} :
         n \in 1..MaxRows}

GroupedFrames ==
  {[rows |-> r, dtype |-> "object", categories |-> <<>>] :
     r \in {q \in GroupedRows : \A i \in 1..(Len(q) - 1) : RowKey(q[i]) <= RowKey(q[i + 1])}}

GroupedArguments ==
  {a \in Arguments("groupby_set_categorical") :
     /\ a.top_n \in {NoneN} \cup (1..(MaxTopN - 1))
     /\ a.other_label = "_other"
     /\ a.top_n = NoneN => ~a.keep_other}

InitGrouped ==
  /\ df \in GroupedFrames
  /\ call = NoCall
  /\ res = NoResult

GroupbySetCategorical ==
  /\ call.op = "none"
  /\ \E a \in GroupedArguments :
       /\ call' = a
       /\ res' = groupby_set_categorical(df, a)
  /\ UNCHANGED df

NextGrouped == GroupbySetCategorical

SpecGrouped == InitGrouped /\ [][NextGrouped]_vars

(***************************************************************************)
(* Properties of set_categorical on a data frame.  df is the frame the     *)
(* call was made on, call its arguments, res the frame it returned.        *)
(***************************************************************************)
Called == call.op = "set_categorical"

Min(a, b) == IF a <= b THEN a ELSE b

\* x is listed before y in the level sequence L.
Precedes(L, x, y) == IndexOf(L, x) < IndexOf(L, y)

\* The aggregate of value_col over the input rows of category c.
InputAggregate(c) == Aggregate(call.aggregator, RowsWithCat(df.rows, c))

\* The column of the input as plain strings.
PlainStrings(t) == [rows |-> t.rows, dtype |-> "object", categories |-> <<>>]

Truncating == call.value_col /\ call.top_n >= 1

\* C1: with a value column, no top_n and reverse=False, the levels list every
\* distinct value of the column once, no level is listed before one with a
\* larger aggregate, and the rows are those of the input.
C1_LevelsDescendByAggregate ==
  (Called /\ call.value_col /\ call.top_n = NoneN /\ ~call.reverse) =>
    /\ IsInjective(res.categories)
    /\ Range(res.categories) = CatsOf(df.rows)
    /\ \A i, j \in 1..Len(res.categories) :
         i < j => AggGeq(InputAggregate(res.categories[i]),
                         InputAggregate(res.categories[j]))
    /\ res.rows = df.rows

C1_Witness ==
  /\ Called /\ call.value_col /\ call.top_n = NoneN /\ ~call.reverse
  /\ res.categories = <<"c", "a", "b">>
  /\ AggGreater(InputAggregate("c"), InputAggregate("a"))
  /\ AggGreater(InputAggregate("a"), InputAggregate("b"))

\* C2: without a value column the levels are the distinct values of the column
\* in ascending alphabetical order, and every row keeps its value.
C2_LevelsAlphabetical ==
  (Called /\ ~call.value_col) =>
    /\ Range(res.categories) = CatsOf(df.rows)
    /\ \A i, j \in 1..Len(res.categories) :
         i < j => StrLess(res.categories[i], res.categories[j])
    /\ res.rows = df.rows

C2_Witness ==
  /\ Called /\ ~call.value_col
  /\ res.categories = <<"a", "b", "c">>
  /\ df.rows[1].cat = "c"
  /\ res.rows = df.rows

\* C3: with a value column, top_n = N >= 1 and keep_other=False, the levels are
\* N distinct values (all of them when there are fewer than N) none of which
\* has a smaller aggregate than a value left out, and the rows are the input
\* rows of those values, in their original order.
C3_TopNKeepsLargest ==
  (Called /\ Truncating /\ ~call.keep_other) =>
    LET kept == Range(res.categories)
    IN /\ IsInjective(res.categories)
       /\ kept \subseteq CatsOf(df.rows)
       /\ Cardinality(kept) = Min(call.top_n, Cardinality(CatsOf(df.rows)))
       /\ \A c \in kept : \A d \in CatsOf(df.rows) \ kept :
            AggGeq(InputAggregate(c), InputAggregate(d))
       /\ res.rows = SelectSeq(df.rows, LAMBDA r : r.cat \in kept)

C3_Witness ==
  /\ Called /\ Truncating /\ ~call.keep_other
  /\ call.top_n = 2
  /\ Len(df.rows) = 3
  /\ Cardinality(CatsOf(df.rows)) = 3
  /\ IndexLabels(res.rows) = <<0, 2>>

\* C4: with a value column, top_n = N and keep_other=True, the rows are those
\* of the input in the same order; the values that rows keep are N values (all
\* when there are fewer) none of which has a smaller aggregate than a value
\* that is replaced; every row of another value carries other_label instead;
\* the index and the other columns are unchanged.
C4_KeepOtherRelabels ==
  (Called /\ Truncating /\ call.keep_other) =>
    LET n == Len(df.rows)
        kept == {c \in CatsOf(df.rows) :
                   \E i \in 1..n : df.rows[i].cat = c /\ res.rows[i].cat = c}
    IN /\ Len(res.rows) = n
       /\ Cardinality(kept) = Min(call.top_n, Cardinality(CatsOf(df.rows)))
       /\ \A c \in kept : \A d \in CatsOf(df.rows) \ kept :
            AggGeq(InputAggregate(c), InputAggregate(d))
       /\ \A i \in 1..n :
            res.rows[i] =
              IF df.rows[i].cat \in kept
              THEN df.rows[i]
              ELSE [df.rows[i] EXCEPT !.cat = call.other_label]

C4_Witness ==
  /\ Called /\ Truncating /\ call.keep_other
  /\ call.other_label = "new_label"
  /\ Len(df.rows) = 3
  /\ res.rows[1].cat = df.rows[1].cat
  /\ res.rows[2].cat = "new_label"
  /\ res.rows[3].cat = df.rows[3].cat

\* The level order before a reversal on request.
Unreversed == IF call.reverse THEN Reverse(res.categories) ELSE res.categories

\* The aggregate over all the input rows that were relabeled to other_label.
PooledAggregate ==
  Aggregate(call.aggregator,
            SelectSeq(df.rows, LAMBDA r : r.cat \notin Range(res.categories)))

\* C5: with top_n and keep_other=True the fallback level is ranked by the
\* aggregate over all the rows relabeled to it: it is listed before a kept
\* level only if its pooled aggregate is at least that level's, and after one
\* only if its pooled aggregate is at most that level's.
C5_OtherRankedByPooledAggregate ==
  (Called /\ Truncating /\ call.keep_other
     /\ call.other_label \in Range(res.categories)) =>
    \A c \in Range(res.categories) \ {call.other_label} :
      /\ Precedes(Unreversed, call.other_label, c)
           => AggGeq(PooledAggregate, InputAggregate(c))
      /\ Precedes(Unreversed, c, call.other_label)
           => AggGeq(InputAggregate(c), PooledAggregate)

\* The fallback level ranks first, ahead of the level that was kept.
C5_Witness ==
  /\ Called /\ Truncating /\ call.keep_other /\ ~call.reverse
  /\ Len(res.categories) = 2
  /\ res.categories[1] = call.other_label
  /\ AggGreater(PooledAggregate, InputAggregate(res.categories[2]))

\* C6 (as claimed): for every table and every combination of the other
\* arguments, the levels with reverse=True are the reverse of the levels with
\* reverse=False, and the rows of the two results are the same.
C6_ReverseInvertsLevels ==
  Called =>
    LET twin == set_categorical(df, [call EXCEPT !.reverse = ~call.reverse])
    IN /\ res.categories = Reverse(twin.categories)
       /\ res.rows = twin.rows

\* The part of C6 the code keeps: with a value column the reversal is applied.
C6_ReverseWithValueColumn ==
  (Called /\ call.value_col) =>
    LET twin == set_categorical(df, [call EXCEPT !.reverse = ~call.reverse])
    IN /\ res.categories = Reverse(twin.categories)
       /\ res.rows = twin.rows

\* C7: on a column that is categorical already the result is the one for the
\* same values held as plain strings, whatever the prior levels were.
C7_PriorLevelsIgnored ==
  (Called /\ df.dtype = "category") => res = set_categorical(PlainStrings(df), call)

C7_Witness ==
  /\ Called /\ df.dtype = "category" /\ call.value_col
  /\ df.categories = <<"c", "unused", "b", "a">>
  /\ res.categories = <<"a", "b", "c">>
  /\ res = set_categorical(PlainStrings(df), call)

(***************************************************************************)
(* Properties of set_categorical on a grouped data frame.  The aggregates  *)
(* are those over the rows of the result.                                  *)
(***************************************************************************)
GroupedCalled == call.op = "groupby_set_categorical" /\ call.value_col

\* The groups in which category c occurs.
GroupsOfCat(rows, c) == {rows[i].grp : i \in {j \in 1..Len(rows) : rows[j].cat = c}}

\* Hierarchical data: every category value lies in exactly one group.
Hierarchical(rows) == \A c \in CatsOf(rows) : Cardinality(GroupsOfCat(rows, c)) = 1

GroupOf(c) == CHOOSE g \in GroupsOfCat(res.rows, c) : TRUE

GroupAggregate(g) == Aggregate(call.aggregator, RowsWithGrp(res.rows, g))

OwnAggregate(g, c) == Aggregate(call.aggregator, RowsWithGrpCat(res.rows, g, c))

\* C8: on hierarchical data, reverse=False: of two levels in groups with
\* different group aggregates, the one of the group with the larger aggregate
\* comes first; of two levels of one group, the one with the larger own
\* aggregate comes first.  The aggregates are those over the retained rows.
C8_GroupsThenLevelsDescend ==
  (GroupedCalled /\ ~call.reverse /\ Hierarchical(df.rows) /\ Hierarchical(res.rows)) =>
    /\ Range(res.categories) = CatsOf(res.rows)
    /\ \A x, y \in Range(res.categories) :
         /\ AggGreater(GroupAggregate(GroupOf(x)), GroupAggregate(GroupOf(y)))
              => Precedes(res.categories, x, y)
         /\ (GroupOf(x) = GroupOf(y)
               /\ AggGreater(OwnAggregate(GroupOf(x), x), OwnAggregate(GroupOf(y), y)))
              => Precedes(res.categories, x, y)

\* Group g1 has the larger total in the input and the smaller one over the
\* retained rows: its level is listed after the level of g2; and a call that
\* retains everything lists two levels of one group by their own aggregate.
C8_Witness ==
  /\ GroupedCalled /\ ~call.reverse /\ Hierarchical(df.rows) /\ Hierarchical(res.rows)
  /\ call.aggregator = "sum" /\ call.top_n = 1 /\ ~call.keep_other
  /\ Len(res.rows) < Len(df.rows)
  /\ AggGreater(Aggregate("sum", RowsWithGrp(df.rows, "g1")),
                Aggregate("sum", RowsWithGrp(df.rows, "g2")))
  /\ AggGreater(GroupAggregate("g2"), GroupAggregate("g1"))
  /\ GroupOf(res.categories[1]) = "g2"
  /\ GroupOf(res.categories[2]) = "g1"

\* C9 (as claimed): on hierarchical data the levels of one group form a
\* contiguous block of the level sequence, also when two groups have equal
\* group aggregates.
C9_GroupsAreContiguous ==
  (GroupedCalled /\ Hierarchical(df.rows) /\ Hierarchical(res.rows)) =>
    \A i, j, k \in 1..Len(res.categories) :
      (i < j /\ j < k /\ GroupOf(res.categories[i]) = GroupOf(res.categories[k]))
        => GroupOf(res.categories[j]) = GroupOf(res.categories[i])

\* The part of C9 the code keeps: the blocks are contiguous when no two groups
\* have equal group aggregates.
C9_ContiguousWithoutTies ==
  (GroupedCalled /\ Hierarchical(df.rows) /\ Hierarchical(res.rows)
     /\ \A g, h \in GrpsOf(res.rows) :
          g # h => ~AggEqual(GroupAggregate(g), GroupAggregate(h))) =>
    \A i, j, k \in 1..Len(res.categories) :
      (i < j /\ j < k /\ GroupOf(res.categories[i]) = GroupOf(res.categories[k]))
        => GroupOf(res.categories[j]) = GroupOf(res.categories[i])

\* The groups of category c with the largest group aggregate.
LargestGroups(c) ==
  {g \in GroupsOfCat(res.rows, c) :
     \A h \in GroupsOfCat(res.rows, c) : AggGeq(GroupAggregate(g), GroupAggregate(h))}

LargestGroup(c) == CHOOSE g \in LargestGroups(c) : TRUE

\* x is ranked ahead of y by (aggregate of the largest group, own aggregate in it).
RankedAhead(x, y) ==
  \/ AggGreater(GroupAggregate(LargestGroup(x)), GroupAggregate(LargestGroup(y)))
  \/ /\ LargestGroups(x) = LargestGroups(y)
     /\ Cardinality(LargestGroups(x)) = 1
     /\ AggGreater(OwnAggregate(LargestGroup(x), x), OwnAggregate(LargestGroup(y), y))

GroupedCalledWithoutValue == call.op = "groupby_set_categorical" /\ ~call.value_col

\* C11: grouped set_categorical called without a value column returns the
\* table with the category column categorical (every category value a level,
\* once) and the levels in alphabetical order.
C11_GroupedWithoutValueColumn ==
  GroupedCalledWithoutValue =>
    /\ res.dtype = "category"
    /\ res.categories = SortedLabels(CatsOf(df.rows))
    /\ Len(res.rows) = Len(df.rows)

(***************************************************************************)
(* select_columns.  A column name is a sequence of characters, a regular   *)
(* expression a sequence of tokens: a literal character, "." (any          *)
(* character) or ".*" (any run of characters).  A frame is the sequence of *)
(* its columns, left to right; the values of a column tell which column of *)
(* the input it is.  Column names are distinct.                            *)
(***************************************************************************)
MaxCols == 3

Chars == {"v", "2"}
Tokens == Chars \cup {".", ".*"}

SeqsUpTo(S, n) == UNION {[1..k -> S] : k \in 0..n}

\* Names of one or two characters, expressions of one or two tokens.
ColumnNames == SeqsUpTo(Chars, 2) \ {<<>>}
RegExes == SeqsUpTo(Tokens, 2) \ {<<>>}

\* re.match of one expression at position j of the name; whole: the match
\* has to end at the end of the name.
RECURSIVE MatchFrom(_, _, _, _, _)
MatchFrom(regex, i, name, j, whole) ==
  IF i > Len(regex) THEN (~whole) \/ j > Len(name)
  ELSE IF regex[i] = ".*"
       THEN \/ MatchFrom(regex, i + 1, name, j, whole)
            \/ (j <= Len(name) /\ MatchFrom(regex, i, name, j + 1, whole))
       ELSE /\ j <= Len(name)
            /\ regex[i] \in {".", name[j]}
            /\ MatchFrom(regex, i + 1, name, j + 1, whole)

\* '|'.join('(' + i + ')'): the alternatives of the compiled pattern.
compile(reg_ex_list) ==
  IF reg_ex_list.scalar THEN <<reg_ex_list.value>> ELSE reg_ex_list.value

match(pattern, col) ==
  \E k \in 1..Len(pattern) : MatchFrom(pattern[k], 1, col, 1, FALSE)

fullmatch(pattern, col) ==
  \E k \in 1..Len(pattern) : MatchFrom(pattern[k], 1, col, 1, TRUE)

\* self[labels]: for every label in turn, the columns of that name.
GetColumns(t, labels) ==
  Flatten([k \in 1..Len(labels) |-> SelectSeq(t, LAMBDA c : c.name = labels[k])])

select_columns(t, reg_ex_list) ==
  LET pattern == compile(reg_ex_list)
      matching == SelectSeq(t, LAMBDA c : fullmatch(pattern, c.name))
      selected_cols == Tuple([k \in 1..Len(matching) |-> matching[k].name])
  IN GetColumns(t, selected_cols)

ColumnFrames ==
  {Tuple([p \in 1..Len(names) |-> [name |-> names[p], values |-> <<10 * p, (10 * p) + 1>>]]) :
     names \in {s \in SeqsUpTo(ColumnNames, MaxCols) : s # <<>> /\ IsInjective(s)}}

\* reg_ex_list: one expression, or a list of expressions.
ScalarRegExes == {[scalar |-> TRUE, value |-> r] : r \in RegExes}

RegExLists == {[scalar |-> FALSE, value |-> l] : l \in SeqsUpTo(RegExes, 2)}

InitColumns ==
  /\ df \in ColumnFrames
  /\ call = [op |-> "none"]
  /\ res = <<>>

SelectColumnsWith(l) ==
  /\ call.op = "none"
  /\ call' = [op |-> "select_columns", reg_ex_list |-> l]
  /\ res' = select_columns(df, l)
  /\ UNCHANGED df

SelectColumns ==
  \/ \E l \in ScalarRegExes : SelectColumnsWith(l)
  \/ \E l \in RegExLists : SelectColumnsWith(l)

SpecColumns == InitColumns /\ [][SelectColumns]_vars

(***************************************************************************)
(* Properties of select_columns.                                           *)
(***************************************************************************)
ColumnsCalled == call.op = "select_columns"

RegExesOf(l) == Range(compile(l))

\* An expression of literal characters only stands for one name: itself.
IsLiteral(regex) == \A i \in 1..Len(regex) : regex[i] \in Chars

\* The names an expression stands for, from the meaning of its tokens: the
\* name is cut into one piece per token, a literal's piece is that character,
\* the piece of "." any one character, the piece of ".*" any run.
Denotes(regex, name) ==
  \E cut \in [0..Len(regex) -> 0..Len(name)] :
    /\ cut[0] = 0
    /\ cut[Len(regex)] = Len(name)
    /\ \A i \in 1..Len(regex) :
         /\ cut[i - 1] <= cut[i]
         /\ regex[i] = "." => cut[i] = cut[i - 1] + 1
         /\ regex[i] \in Chars => (cut[i] = cut[i - 1] + 1 /\ name[cut[i]] = regex[i])

Wanted(c) == \E r \in RegExesOf(call.reg_ex_list) : Denotes(r, c.name)

\* C12: select_columns returns exactly the columns whose whole name matches
\* at least one of the expressions, each once, in the left-to-right order of
\* the input and with all their rows; an expression of literal characters
\* selects only the column of exactly that name.
C12_SelectsWholeNameMatches ==
  ColumnsCalled =>
    /\ res = SelectSeq(df, Wanted)
    /\ IsInjective(res)
    /\ \A c \in Range(res) : c \in Range(df)
    /\ \A i, j \in 1..Len(res) : i < j => IndexOf(df, res[i]) < IndexOf(df, res[j])
    /\ \A c \in Range(df) :
         (\A r \in RegExesOf(call.reg_ex_list) : IsLiteral(r) /\ r # c.name)
           => c \notin Range(res)

\* Two expressions given in the opposite order of the columns, the first
\* column matched by both, and a column whose name only starts with a match.
C12_Witness ==
  /\ ColumnsCalled
  /\ ~call.reg_ex_list.scalar
  /\ Len(res) = 2
  /\ Len(df) = 3
  /\ Len(call.reg_ex_list.value) = 2
  /\ MatchFrom(call.reg_ex_list.value[1], 1, res[2].name, 1, TRUE)
  /\ ~MatchFrom(call.reg_ex_list.value[1], 1, res[1].name, 1, TRUE)
  /\ MatchFrom(call.reg_ex_list.value[2], 1, res[1].name, 1, TRUE)
  /\ MatchFrom(call.reg_ex_list.value[2], 1, res[2].name, 1, TRUE)
  /\ \E c \in Range(df) : c \notin Range(res) /\ match(compile(call.reg_ex_list), c.name)

(***************************************************************************)
(* select_rows on a data frame and on a grouped data frame.  A predicate   *)
(* maps a frame to one boolean per row.                                    *)
(***************************************************************************)
Predicates == {"le_mean", "lt_max", "ge_2"}

\* lambda df: df.val <= np.mean(df.val), df.val < np.max(df.val), df.val >= 2
predicate(name, rows) ==
  Tuple([i \in 1..Len(rows) |->
    CASE name = "le_mean" -> rows[i].val * Len(rows) <= SumSeq(ValuesOf(rows))
      [] name = "lt_max" -> \E j \in 1..Len(rows) : rows[i].val < rows[j].val
      [] OTHER -> rows[i].val >= 2])

\* self[mask]: the rows at which the mask is true, in order.
RowsAt(rows, mask) ==
  LET kept == SelectSeq(Tuple([i \in 1..Len(rows) |-> i]), LAMBDA i : mask[i])
  IN Tuple([k \in 1..Len(kept) |-> rows[kept[k]]])

select_rows(t, name) == [t EXCEPT !.rows = RowsAt(t.rows, predicate(name, t.rows))]

select_rows_of_whole_frame(t, name) == select_rows(t, name)

\* self.apply(lambda grp: grp.select_rows(predicate)): the groups' results one
\* after the other, in the input's row order when no group lost a row.
groupby_select_rows(t, name) ==
  LET keys == GroupKeys(t.rows)
      parts == Flatten([k \in 1..Len(keys) |-> select_rows(GroupFrame(t, keys[k]), name).rows])
  IN [t EXCEPT !.rows = IF Len(parts) = Len(t.rows) THEN t.rows ELSE parts]

InitRows ==
  /\ df \in GroupedFrames
  /\ call = [op |-> "none"]
  /\ res = NoResult

SelectRows ==
  /\ call.op = "none"
  /\ \E name \in Predicates :
       /\ call' = [op |-> "select_rows", predicate |-> name]
       /\ res' = select_rows(df, name)
  /\ UNCHANGED df

GroupbySelectRows ==
  /\ call.op = "none"
  /\ \E name \in Predicates :
       /\ call' = [op |-> "groupby_select_rows", predicate |-> name]
       /\ res' = groupby_select_rows(df, name)
  /\ UNCHANGED df

SpecRows == InitRows /\ [][SelectRows \/ GroupbySelectRows]_vars

(***************************************************************************)
(* Properties of select_rows.                                              *)
(***************************************************************************)
\* The predicate's verdict on row r when it is given the rows sub.
Satisfies(name, sub, r) ==
  CASE name = "le_mean" -> r.val * Len(sub) <= SumSeq(ValuesOf(sub))
    [] name = "lt_max" -> \E q \in Range(sub) : q.val > r.val
    [] OTHER -> r.val >= 2

\* C13: grouped select_rows keeps, of every group, exactly the rows at which
\* the predicate is true when it is evaluated on that group's rows alone (in
\* their order, each once); select_rows on a frame keeps exactly the rows at
\* which the predicate is true when it is evaluated on the whole frame.
C13_PredicatePerGroup ==
  /\ call.op = "groupby_select_rows" =>
       /\ \A g \in GrpsOf(df.rows) :
            RowsWithGrp(res.rows, g) =
              SelectSeq(RowsWithGrp(df.rows, g),
                        LAMBDA r : Satisfies(call.predicate, RowsWithGrp(df.rows, g), r))
       /\ GrpsOf(res.rows) \subseteq GrpsOf(df.rows)
  /\ call.op = "select_rows" =>
       res.rows = SelectSeq(df.rows, LAMBDA r : Satisfies(call.predicate, df.rows, r))

\* A row is kept because it is at most its own group's mean although it is
\* above the mean of the whole frame, and a row of another group is dropped.
C13_Witness ==
  /\ call.op = "groupby_select_rows"
  /\ call.predicate = "le_mean"
  /\ \E r \in Range(res.rows) : ~Satisfies("le_mean", df.rows, r)
  /\ \E r \in Range(df.rows) : r \notin Range(res.rows)

(***************************************************************************)
(* equisample.  grp.sample draws its rows at random: the call may return   *)
(* any of the frames in equisample(t, a).                                  *)
(***************************************************************************)
Groupings == {<<"grp">>, <<"grp", "cat">>}

\* The groups of tidy_groupby(grouping), each with its rows, by ascending key.
GroupsBy(rows, grouping) ==
  LET grps == GroupKeys(rows)
  IN IF Len(grouping) = 1
     THEN Tuple([k \in 1..Len(grps) |-> RowsWithGrp(rows, grps[k])])
     ELSE Flatten([k \in 1..Len(grps) |->
            LET cats == SortedLabels(CatsOf(RowsWithGrp(rows, grps[k])))
            IN [j \in 1..Len(cats) |-> RowsWithGrpCat(rows, grps[k], cats[j])]])

\* .size()['size'].min()
smallest_size(groups) ==
  CHOOSE m \in {Len(groups[k]) : k \in 1..Len(groups)} :
    \A k \in 1..Len(groups) : m <= Len(groups[k])

sample_with_replacement(rows, n, replace) ==
  {Tuple([i \in 1..n |-> rows[s[i]]]) : s \in [1..n -> 1..Len(rows)]}

\* grp.sample(n, replace=replace): n rows of the group in a random order,
\* no row twice unless replace is set.
sample(rows, n, replace) ==
  {Tuple([i \in 1..n |-> rows[s[i]]]) :
     s \in {f \in [1..n -> 1..Len(rows)] : replace \/ IsInjective(f)}}

RECURSIVE Sampled(_, _, _)
Sampled(groups, n, replace) ==
  IF groups = <<>> THEN {<<>>}
  ELSE {<<p>> \o rest : p \in sample(Head(groups), n, replace),
                        rest \in Sampled(Tail(groups), n, replace)}

ValueErrorRaised == [rows |-> <<>>, dtype |-> "ValueError", categories |-> <<>>]

\* Mutant: only a missing n falls back to the size of the smallest group.
equisample_of_zero_rows(t, a) ==
  LET groups == GroupsBy(t.rows, a.grouping)
      n == IF a.n = NoneN THEN smallest_size(groups) ELSE a.n
  IN IF ~a.replace /\ \E k \in 1..Len(groups) : n > Len(groups[k])
     THEN {ValueErrorRaised}
     ELSE {[t EXCEPT !.rows = IF parts = groups THEN t.rows ELSE Flatten(parts)] :
             parts \in Sampled(groups, n, a.replace)}

\* "if not n:" takes a missing n and n = 0 alike.
equisample(t, a) ==
  LET groups == GroupsBy(t.rows, a.grouping)
      n == IF a.n \in {NoneN, 0} THEN smallest_size(groups) ELSE a.n
  IN IF ~a.replace /\ \E k \in 1..Len(groups) : n > Len(groups[k])
     THEN {ValueErrorRaised}
     ELSE {[t EXCEPT !.rows = IF parts = groups THEN t.rows ELSE Flatten(parts)] :
             parts \in Sampled(groups, n, a.replace)}

SampleArguments ==
  [op : {"equisample"}, grouping : Groupings, n : {NoneN, 0, 1, 2}, replace : BOOLEAN]

InitSample ==
  /\ df \in GroupedFrames
  /\ call = [op |-> "none"]
  /\ res = NoResult

Equisample ==
  /\ call.op = "none"
  /\ \E a \in SampleArguments :
       /\ call' = a
       /\ res' \in equisample(df, a)
  /\ UNCHANGED df

SpecSample == InitSample /\ [][Equisample]_vars

(***************************************************************************)
(* Properties of equisample.                                               *)
(***************************************************************************)
\* The grouping key of a row.
KeyOf(r, grouping) == IF Len(grouping) = 1 THEN <<r.grp>> ELSE <<r.grp, r.cat>>

RowsOfKey(rows, grouping, key) == SelectSeq(rows, LAMBDA r : KeyOf(r, grouping) = key)

KeysOf(rows, grouping) == {KeyOf(rows[i], grouping) : i \in 1..Len(rows)}

\* C14: equisample without n and without replacement returns, for every
\* group of the input, exactly as many rows as the smallest group of the
\* input has, each of them a row of that group of the input, no row twice.
C14_EveryGroupSmallestSize ==
  (call.op = "equisample" /\ call.n = NoneN /\ ~call.replace) =>
    /\ res.dtype # "ValueError"
    /\ IsInjective(res.rows)
    /\ Range(res.rows) \subseteq Range(df.rows)
    /\ \A key \in KeysOf(df.rows, call.grouping) :
         /\ Len(RowsOfKey(res.rows, call.grouping, key)) > 0
         /\ \A other \in KeysOf(df.rows, call.grouping) :
              Len(RowsOfKey(res.rows, call.grouping, key))
                <= Len(RowsOfKey(df.rows, call.grouping, other))
         /\ \E other \in KeysOf(df.rows, call.grouping) :
              Len(RowsOfKey(res.rows, call.grouping, key))
                = Len(RowsOfKey(df.rows, call.grouping, other))

\* Two groups of different sizes: the larger one loses a row.
C14_Witness ==
  /\ call.op = "equisample" /\ call.n = NoneN /\ ~call.replace
  /\ Len(call.grouping) = 2
  /\ Len(df.rows) = 3
  /\ Len(res.rows) = 2
  /\ res.rows[1].val > res.rows[2].val

(***************************************************************************)
(* fortify.  A model is fitted by formula 'y ~ x' on a frame with columns  *)
(* x and y; the fit drops the rows with a missing x or y.  The fitted      *)
(* model holds the frame it was given (model.data.frame) and the series    *)
(* fittedvalues, one entry for every row used, under that row's label.     *)
(***************************************************************************)
Missing == 0

\* The model's prediction at x (one fixed fit: any function of x will do).
Predict(x) == 10 * x

\* The row labels: the default index 0..n-1, or the same labels descending.
IndexLabelings(n) == {[i \in 1..n |-> i - 1], [i \in 1..n |-> n - i]}

ModelFrames ==
  UNION {{Tuple([i \in 1..n |-> [idx |-> p[i], x |-> xs[i], y |-> ys[i]]]) :
            p \in IndexLabelings(n), xs \in [1..n -> {Missing, 1, 2}], ys \in [1..n -> {Missing, 1}]} :
         n \in 1..MaxRows}

Complete(r) == r.x # Missing /\ r.y # Missing

\* smf.ols(formula='y ~ x', data=frame).fit()
fit(frame) ==
  LET used == SelectSeq(frame, Complete)
  IN [frame |-> frame,
      fittedvalues |-> Tuple([k \in 1..Len(used) |-> [idx |-> used[k].idx, value |-> Predict(used[k].x)]])]

\* data['fitted'] = series: every row gets the entry of its own label, or a
\* missing value when the series has none.
AssignFitted(data, series) ==
  Tuple([i \in 1..Len(data) |->
    [idx |-> data[i].idx, x |-> data[i].x, y |-> data[i].y,
     fitted |-> IF \E k \in 1..Len(series) : series[k].idx = data[i].idx
                THEN series[CHOOSE k \in 1..Len(series) : series[k].idx = data[i].idx].value
                ELSE Missing]])

fortify_by_position(model) ==
  Tuple([i \in 1..Len(model.frame) |->
    [idx |-> model.frame[i].idx, x |-> model.frame[i].x, y |-> model.frame[i].y,
     fitted |-> IF i <= Len(model.fittedvalues) THEN model.fittedvalues[i].value ELSE Missing]])

fortify(model) ==
  LET data == model.frame
  IN AssignFitted(data, model.fittedvalues)

InitFortify ==
  /\ df \in ModelFrames
  /\ call = [op |-> "none"]
  /\ res = <<>>

\* The fit needs at least one complete row.
FitModel ==
  /\ call.op = "none"
  /\ \E i \in 1..Len(df) : Complete(df[i])
  /\ call' = [op |-> "fit", model |-> fit(df)]
  /\ UNCHANGED <<df, res>>

Fortify ==
  /\ call.op = "fit"
  /\ call' = [call EXCEPT !.op = "fortify"]
  /\ res' = fortify(call.model)
  /\ UNCHANGED df

SpecFortify == InitFortify /\ [][FitModel \/ Fortify]_vars

(***************************************************************************)
(* Properties of fortify.                                                  *)
(***************************************************************************)
\* C15: fortify returns the rows of the frame the model was fitted on, in
\* their order, under their labels and with their columns, plus the column
\* fitted: a row used in the fit carries its own fitted value, a row the fit
\* dropped carries a missing value in its own place.
C15_FittedAlignedWithRows ==
  call.op = "fortify" =>
    /\ Len(res) = Len(df)
    /\ \A i \in 1..Len(df) :
         /\ res[i].idx = df[i].idx /\ res[i].x = df[i].x /\ res[i].y = df[i].y
         /\ res[i].fitted = IF Complete(df[i]) THEN Predict(df[i].x) ELSE Missing

\* A dropped row lies before a used one whose fitted value differs from that
\* of the first used row.
C15_Witness ==
  /\ call.op = "fortify"
  /\ Len(res) = 3
  /\ res[1].fitted # Missing
  /\ res[2].fitted = Missing
  /\ res[3].fitted \notin {Missing, res[1].fitted}
  /\ res[1].idx > res[3].idx

(***************************************************************************)
(* mean_weighted.  The result is the ValueError of the function's own      *)
(* check, or what DescrStatsW(values, weights).mean gives: the quotient    *)
(* of two sums, kept as numerator n and denominator d (0/0 is NaN), or the *)
(* library's own error when the two sequences differ in length.            *)
(***************************************************************************)
Weights == {-1, 0, 1, 2}

NegativeWeights == [kind |-> "ValueError", message |-> "Must pass non-negative weights."]

\* sm.stats.DescrStatsW(values, weights).mean: np.dot(data, weights) / sum(weights)
DescrStatsW_mean(values, weights) ==
  IF Len(values) # Len(weights)
  THEN [kind |-> "ValueError", message |-> "shapes not aligned"]
  ELSE [kind |-> "mean",
        n |-> SumSeq([i \in 1..Len(values) |-> values[i] * weights[i]]),
        d |-> SumSeq(weights)]

mean_weighted_all_negative(values, weights) ==
  IF \A i \in 1..Len(weights) : weights[i] < 0
  THEN NegativeWeights
  ELSE DescrStatsW_mean(values, weights)

mean_weighted(values, weights) ==
  IF \E i \in 1..Len(weights) : weights[i] < 0
  THEN NegativeWeights
  ELSE DescrStatsW_mean(values, weights)

InitWeighted ==
  /\ df \in [values : SeqsUpTo(Values, MaxRows), weights : SeqsUpTo(Weights, MaxRows)]
  /\ call = [op |-> "none"]
  /\ res = <<>>

MeanWeighted ==
  /\ call.op = "none"
  /\ call' = [op |-> "mean_weighted"]
  /\ res' = mean_weighted(df.values, df.weights)
  /\ UNCHANGED df

SpecWeighted == InitWeighted /\ [][MeanWeighted]_vars

(***************************************************************************)
(* Properties of mean_weighted.                                            *)
(***************************************************************************)
RECURSIVE Dot(_, _)
Dot(v, w) == IF v = <<>> THEN 0 ELSE (Head(v) * Head(w)) + Dot(Tail(v), Tail(w))

\* C16: mean_weighted raises its ValueError when and only when a weight is
\* negative, whatever the values are; otherwise the result is the library's:
\* for as many values as weights, sum(v*w) / sum(w).
C16_NegativeWeightRaises ==
  call.op = "mean_weighted" =>
    /\ (res = NegativeWeights) <=> (\E w \in Range(df.weights) : w < 0)
    /\ (res # NegativeWeights /\ Len(df.values) = Len(df.weights)) =>
         /\ res.kind = "mean"
         /\ res.n = Dot(df.values, df.weights)
         /\ res.d = SumSeq(df.weights)

\* One negative weight among non-negative ones raises, with as many values
\* as weights.
C16_Witness ==
  /\ call.op = "mean_weighted"
  /\ res = NegativeWeights
  /\ Len(df.values) = Len(df.weights)
  /\ \E i, j \in 1..Len(df.weights) : df.weights[i] < 0 /\ df.weights[j] > 0

(***************************************************************************)
(* kmgt_labels.  A number is zero or sign * (mant / 100) * 10^exp with a   *)
(* mantissa mant of three digits (100..999): 1.23e6 is mant 123, exp 6.    *)
(* A label is a string.                                                    *)
(***************************************************************************)
MaxExponent == 28

Mantissas == {100, 123, 500, 909, 910, 950, 999}

Zero == [sign |-> 1, mant |-> 0, exp |-> 0]

Numbers ==
  {Zero} \cup [sign : {1, -1}, mant : Mantissas, exp : (-3)..MaxExponent]

\* np.ceil(np.log10(abs(num * 1.1))): 1.1 * mant / 100 lies in (1, 10] when
\* 11 * mant <= 10000 and in (10, 100) otherwise.
CeilLog10Padded(num) == num.exp + (IF 11 * num.mant <= 10000 THEN 1 ELSE 2)

power_map == [s \in 0..8 |-> <<"", "K", "M", "G", "T", "P", "E", "Z", "Y">>[s + 1]]

Pow10(k) == <<1, 10, 100, 1000>>[k + 1]

\* The digits of a fraction given in thousandths, trailing zeros removed.
FractionDigits(frac) ==
  IF frac = 0 THEN ""
  ELSE IF frac % 100 = 0 THEN "." \o ToString(frac \div 100)
  ELSE IF frac % 10 = 0
       THEN "." \o (IF frac < 100 THEN "0" ELSE "") \o ToString(frac \div 10)
  ELSE "." \o (IF frac < 10 THEN "00" ELSE IF frac < 100 THEN "0" ELSE "") \o ToString(frac)

\* '{:.3g}'.format(num / 10**shift), for a quotient of magnitude in [0.1, 1000).
Format3g(num, shift) ==
  LET thousandths == num.mant * Pow10((num.exp - shift) + 1)
  IN (IF num.sign < 0 THEN "-" ELSE "") \o ToString(thousandths \div 1000) \o FractionDigits(thousandths % 1000)

\* str(num) of a float of magnitude 1e16 or more: '1.23e+27'.
str(num) ==
  (IF num.sign < 0 THEN "-" ELSE "") \o ToString(num.mant \div 100) \o FractionDigits((num.mant % 100) * 10)
    \o "e+" \o ToString(num.exp)

mille_scale(num) == (CeilLog10Padded(num) - 1) \div 3

\* Mutant: the suffixes in a list, where a negative index counts from the end.
label_one_suffix_list(num, prefix, suffix) ==
  IF num = Zero THEN "0"
  ELSE IF mille_scale(num) > 8 THEN prefix \o str(num) \o suffix
  ELSE prefix \o Format3g(num, 3 * mille_scale(num))
         \o power_map[(mille_scale(num) + 9) % 9] \o suffix

label_one(num, prefix, suffix) ==
  IF num = Zero THEN "0"
  ELSE IF mille_scale(num) > 8 THEN prefix \o str(num) \o suffix
  ELSE IF mille_scale(num) \notin DOMAIN power_map THEN "KeyError"
  ELSE prefix \o Format3g(num, 3 * mille_scale(num)) \o power_map[mille_scale(num)] \o suffix

\* [label_one(n) for n in numlist]: an error in one label ends the call.
kmgt_labels(numlist, prefix, suffix) ==
  LET labels == Tuple([i \in 1..Len(numlist) |-> label_one(numlist[i], prefix, suffix)])
  IN IF \E i \in 1..Len(labels) : labels[i] = "KeyError"
     THEN [raised |-> "KeyError", labels |-> <<>>]
     ELSE [raised |-> "", labels |-> labels]

NumLists ==
  {<<a>> : a \in Numbers}
    \cup {<<a, b>> : a \in Numbers,
                     b \in {Zero, [sign |-> 1, mant |-> 500, exp |-> -1],
                                  [sign |-> 1, mant |-> 123, exp |-> 3]}}

InitLabels ==
  /\ df \in NumLists
  /\ call = [op |-> "none"]
  /\ res = <<>>

KmgtLabels ==
  /\ call.op = "none"
  /\ \E prefix \in {"", "$"}, suffix \in {"", "%"} :
       /\ call' = [op |-> "kmgt_labels", prefix |-> prefix, suffix |-> suffix]
       /\ res' = kmgt_labels(df, prefix, suffix)
  /\ UNCHANGED df

SpecLabels == InitLabels /\ [][KmgtLabels]_vars

(***************************************************************************)
(* Properties of kmgt_labels.                                              *)
(***************************************************************************)
\* num / 1000^s has a magnitude in [1, 1000).
MantissaInRange(num, s) == (num.exp - (3 * s)) \in 0..2

\* C17: every non-zero number of magnitude below 10^27 is labelled with the
\* suffix number s of ('', K, M, G, T, P, E, Z, Y) for which num / 1000^s has
\* a magnitude in [1, 1000), that quotient written with three significant
\* figures between prefix and suffix; a number of magnitude 10^27 or more is
\* written unscaled.
C17_MantissaBetweenOneAndThousand ==
  call.op = "kmgt_labels" =>
    \A i \in 1..Len(df) :
      df[i] # Zero =>
        /\ res.raised = ""
        /\ IF df[i].exp < 27
           THEN \E s \in DOMAIN power_map :
                  /\ MantissaInRange(df[i], s)
                  /\ res.labels[i] =
                       call.prefix \o Format3g(df[i], 3 * s) \o power_map[s] \o call.suffix
           ELSE res.labels[i] = call.prefix \o str(df[i]) \o call.suffix

(***************************************************************************)
(* quarter_labels.  A date is a year, month, day and hour.                 *)
(***************************************************************************)
Dates == [year : {2021, 2022}, month : 1..12, day : {1, 28}, hour : {0, 12}]

\* pd.Timestamp(x).quarter
quarter(dt) == ((dt.month - 1) \div 3) + 1

strftimeq_by_month_div(dt) == ToString(dt.year) \o "Q" \o ToString((dt.month \div 3) + 1)

strftimeq(dt) == ToString(dt.year) \o "Q" \o ToString(quarter(dt))

quarter_labels(date_list) == Tuple([i \in 1..Len(date_list) |-> strftimeq(date_list[i])])

InitQuarter ==
  /\ df \in {<<>>} \cup {<<a>> : a \in Dates}
         \cup {<<a, b>> : a \in Dates, b \in [year : {2022}, month : {3, 4, 12}, day : {1}, hour : {12}]}
  /\ call = [op |-> "none"]
  /\ res = <<>>

QuarterLabels ==
  /\ call.op = "none"
  /\ call' = [op |-> "quarter_labels"]
  /\ res' = quarter_labels(df)
  /\ UNCHANGED df

SpecQuarter == InitQuarter /\ [][QuarterLabels]_vars

(***************************************************************************)
(* Properties of quarter_labels.                                           *)
(***************************************************************************)
QuarterOfMonth == <<"1", "1", "1", "2", "2", "2", "3", "3", "3", "4", "4", "4">>

\* C18: quarter_labels returns one label per date, the year followed by 'Q'
\* and the quarter ((month - 1) div 3) + 1: January to March 1, April to June
\* 2, July to September 3, October to December 4, whatever the day and hour.
C18_YearQQuarter ==
  call.op = "quarter_labels" =>
    /\ Len(res) = Len(df)
    /\ \A i \in 1..Len(df) :
         res[i] = ToString(df[i].year) \o "Q" \o QuarterOfMonth[df[i].month]
    /\ \A i, j \in 1..Len(df) :
         (df[i].year = df[j].year /\ df[i].month = df[j].month) => res[i] = res[j]

\* The last month of a quarter and the first of the next, on different days
\* and hours.
C18_Witness ==
  /\ call.op = "quarter_labels"
  /\ Len(df) = 2
  /\ df[1].month = 9 /\ df[1].day = 28 /\ df[1].hour = 0
  /\ df[2].month = 12
  /\ res = <<"2021Q3", "2022Q4">>

(***************************************************************************)
(* flatten_columns.  A header is the sequence of the column labels; a      *)
(* label is the tuple of its level values (one value for a plain Index),   *)
(* a level value and a separator are strings, written as sequences of      *)
(* characters.  multi tells a MultiIndex from a plain Index.               *)
(***************************************************************************)
MaxLevels == 2

NameParts == SeqsUpTo({"a", "_"}, 2)

Separators == {<<"_">>, <<".">>, <<>>, <<"_", "a">>}

\* sep.join(values)
RECURSIVE join(_, _)
join(values, sep) ==
  IF Len(values) = 0 THEN <<>>
  ELSE IF Len(values) = 1 THEN values[1]
  ELSE values[1] \o sep \o join(Tail(values), sep)

\* s.strip(chars): the characters of chars removed from both ends.
RECURSIVE strip(_, _)
strip(s, chars) ==
  IF s = <<>> THEN s
  ELSE IF Head(s) \in Range(chars) THEN strip(Tail(s), chars)
  ELSE IF s[Len(s)] \in Range(chars) THEN strip(SubSeq(s, 1, Len(s) - 1), chars)
  ELSE s

\* The same without the test for a MultiIndex: a plain label is then joined
\* character by character.
flatten_columns_unchecked(t, sep) ==
  [multi |-> FALSE,
   columns |-> Tuple([k \in 1..Len(t.columns) |->
     LET col == IF t.multi THEN t.columns[k]
                ELSE [i \in 1..Len(t.columns[k][1]) |-> <<t.columns[k][1][i]>>]
     IN <<strip(join(col, sep), sep)>>])]

flatten_columns(t, sep) ==
  IF ~t.multi THEN t
  ELSE [multi |-> FALSE,
        columns |-> Tuple([k \in 1..Len(t.columns) |-> <<strip(join(t.columns[k], sep), sep)>>])]

\* One column of any label, alone or followed by a second column.
Headers ==
  UNION {{[multi |-> m, columns |-> <<col>> \o rest] :
            col \in [1..n -> NameParts], rest \in {<<>>, <<[i \in 1..n |-> <<"a">>]>>},
            m \in {b \in BOOLEAN : b \/ n = 1}} :
         n \in 1..MaxLevels}

InitFlatten ==
  /\ df \in Headers
  /\ call = [op |-> "none"]
  /\ res = <<>>

FlattenColumns ==
  /\ call.op = "none"
  /\ \E sep \in Separators :
       /\ call' = [op |-> "flatten_columns", sep |-> sep]
       /\ res' = flatten_columns(df, sep)
  /\ UNCHANGED df

\* flatten_columns of the frame the first call returned, same separator.
FlattenAgain ==
  /\ call.op = "flatten_columns"
  /\ call' = [call EXCEPT !.op = "flatten_columns_again"]
  /\ df' = res
  /\ res' = flatten_columns(res, call.sep)

SpecFlatten == InitFlatten /\ [][FlattenColumns \/ FlattenAgain]_vars

(***************************************************************************)
(* Properties of flatten_columns.                                          *)
(***************************************************************************)
\* C19: flatten_columns applied to the frame a first flatten_columns
\* returned gives that frame again, for every header and separator; and a
\* frame with a single-level header is returned with the header unchanged.
C19_FlattenIdempotent ==
  /\ call.op = "flatten_columns_again" => res = df
  /\ (call.op = "flatten_columns" /\ ~df.multi) => res = df

\* The second call, on a header whose flat name still holds the separator.
C19_Witness ==
  /\ call.op = "flatten_columns_again"
  /\ call.sep = <<"_">>
  /\ Len(res.columns) = 2
  /\ res.columns[1] = <<<<"a", "_", "_", "a">>>>
  /\ res.columns[2] = <<<<"a", "_", "a">>>>

(***************************************************************************)
(* reverse_categories.  A frame is the sequence of its columns c1, c2; a   *)
(* categorical column has its levels in categories, any other column none. *)
(***************************************************************************)
TypedColumns ==
  {[dtype |-> "category", categories |-> l, values |-> v] :
     l \in {<<"a", "b">>, <<"b", "a">>, <<"a", "unused", "b">>, <<"b", "unused", "a">>},
     v \in [1..2 -> {"a", "b"}]}
    \cup {[dtype |-> "object", categories |-> <<>>, values |-> v] : v \in [1..2 -> {"a", "b"}]}

TypedFrames ==
  {<<[name |-> "c1", column |-> c1], [name |-> "c2", column |-> c2]>> :
     c1 \in TypedColumns, c2 \in TypedColumns}

\* target_columns: None, one name, or a list of names (no name twice).
TargetColumns ==
  {[given |-> FALSE, names |-> <<>>]}
    \cup {[given |-> TRUE, names |-> n] :
            n \in {<<>>, <<"c1">>, <<"c2">>, <<"c1", "c2">>, <<"c2", "c1">>}}

\* pd.Categorical(res[c], categories=res[c].values.categories[::-1])
reversed_column(col) ==
  IF col.dtype = "category" THEN [col EXCEPT !.categories = Reverse(col.categories)] ELSE col

\* for c in target_columns: ..., one column after the other.
RECURSIVE reverse_each(_, _)
reverse_each(t, names) ==
  IF names = <<>> THEN t
  ELSE reverse_each(
         Tuple([k \in 1..Len(t) |->
           IF t[k].name = Head(names)
           THEN [t[k] EXCEPT !.column = reversed_column(t[k].column)]
           ELSE t[k]]),
         Tail(names))

reverse_categories_of_all_columns(t, target_columns) ==
  reverse_each(t, Tuple([k \in 1..Len(t) |-> t[k].name]))

reverse_categories(t, target_columns) ==
  IF (~target_columns.given) \/ target_columns.names = <<>>
  THEN reverse_each(t, Tuple([k \in 1..Len(t) |-> t[k].name]))
  ELSE reverse_each(t, target_columns.names)

InitReverse ==
  /\ df \in TypedFrames
  /\ call = [op |-> "none"]
  /\ res = <<>>

ReverseCategories ==
  /\ call.op = "none"
  /\ \E target_columns \in TargetColumns :
       /\ call' = [op |-> "reverse_categories", target_columns |-> target_columns, self |-> df]
       /\ res' = reverse_categories(df, target_columns)
  /\ UNCHANGED df

\* reverse_categories of the frame the first call returned, same target.
ReverseAgain ==
  /\ call.op = "reverse_categories"
  /\ call' = [call EXCEPT !.op = "reverse_categories_again"]
  /\ df' = res
  /\ res' = reverse_categories(res, call.target_columns)

SpecReverse == InitReverse /\ [][ReverseCategories \/ ReverseAgain]_vars

(***************************************************************************)
(* Properties of reverse_categories.                                       *)
(***************************************************************************)
Targeted(name) ==
  \/ ~call.target_columns.given
  \/ call.target_columns.names = <<>>
  \/ name \in Range(call.target_columns.names)

\* C20: reverse_categories applied twice with the same target returns the
\* original frame, level order and unused levels included; applied once it
\* reverses the level order of the targeted categorical columns (of all
\* categorical columns without a target) and changes neither a row value nor
\* any other column.
C20_ReverseTwiceRestores ==
  /\ call.op = "reverse_categories_again" => res = call.self
  /\ call.op = "reverse_categories" =>
       /\ Len(res) = Len(df)
       /\ \A k \in 1..Len(df) :
            /\ res[k].name = df[k].name
            /\ res[k].column.values = df[k].column.values
            /\ res[k].column.dtype = df[k].column.dtype
            /\ res[k].column.categories =
                 IF Targeted(df[k].name) /\ df[k].column.dtype = "category"
                 THEN Reverse(df[k].column.categories)
                 ELSE df[k].column.categories

\* Two categorical columns, one with an unused level: only the targeted one
\* is reversed, and the second call restores it.
C20_Witness ==
  /\ call.op = "reverse_categories_again"
  /\ call.target_columns.given
  /\ call.target_columns.names = <<"c2">>
  /\ call.self[1].column.categories = <<"a", "b">>
  /\ call.self[2].column.categories = <<"a", "unused", "b">>
  /\ df[1].column.categories = <<"a", "b">>
  /\ df[2].column.categories = <<"b", "unused", "a">>
  /\ res[2].column.categories = <<"a", "unused", "b">>

(***************************************************************************)
(* drop_unused_levels, on the frames of reverse_categories.                *)
(***************************************************************************)
remove_unused_categories_sorted(col) ==
  IF col.dtype = "category"
  THEN [col EXCEPT !.categories = SortedLabels(Range(col.values))]
  ELSE col

\* res[c].cat.remove_unused_categories(inplace=True): the levels some row
\* uses, in the order they had.
remove_unused_categories(col) ==
  IF col.dtype = "category"
  THEN [col EXCEPT !.categories = SelectSeq(col.categories, LAMBDA l : l \in Range(col.values))]
  ELSE col

\* for c in target_columns: ..., one column after the other.
RECURSIVE drop_each(_, _)
drop_each(t, names) ==
  IF names = <<>> THEN t
  ELSE drop_each(
         Tuple([k \in 1..Len(t) |->
           IF t[k].name = Head(names)
           THEN [t[k] EXCEPT !.column = remove_unused_categories(t[k].column)]
           ELSE t[k]]),
         Tail(names))

drop_unused_levels(t, target_columns) ==
  IF (~target_columns.given) \/ target_columns.names = <<>>
  THEN drop_each(t, Tuple([k \in 1..Len(t) |-> t[k].name]))
  ELSE drop_each(t, target_columns.names)

DropUnusedLevels ==
  /\ call.op = "none"
  /\ \E target_columns \in TargetColumns :
       /\ call' = [op |-> "drop_unused_levels", target_columns |-> target_columns, self |-> df]
       /\ res' = drop_unused_levels(df, target_columns)
  /\ UNCHANGED df

\* drop_unused_levels of the frame the first call returned, same target.
DropAgain ==
  /\ call.op = "drop_unused_levels"
  /\ call' = [call EXCEPT !.op = "drop_unused_levels_again"]
  /\ df' = res
  /\ res' = drop_unused_levels(res, call.target_columns)

SpecDrop == InitReverse /\ [][DropUnusedLevels \/ DropAgain]_vars

(***************************************************************************)
(* Properties of drop_unused_levels.                                       *)
(***************************************************************************)
\* Level x stands before level y in the sequence of levels l.
Before(l, x, y) == \E i, j \in 1..Len(l) : i < j /\ l[i] = x /\ l[j] = y

\* C22: drop_unused_levels leaves names, dtypes and row values as they are;
\* the levels of a targeted categorical column (of every categorical column
\* without a target) become exactly the levels that occur in the column, each
\* once, in their previous relative order; the levels of the other columns
\* stay; and a second application changes nothing.
C22_OnlyUsedLevelsRemain ==
  /\ call.op = "drop_unused_levels_again" => res = df
  /\ call.op = "drop_unused_levels" =>
       /\ Len(res) = Len(df)
       /\ \A k \in 1..Len(df) :
            /\ res[k].name = df[k].name
            /\ res[k].column.values = df[k].column.values
            /\ res[k].column.dtype = df[k].column.dtype
            /\ IF Targeted(df[k].name) /\ df[k].column.dtype = "category"
               THEN /\ Range(res[k].column.categories) = Range(df[k].column.values)
                    /\ IsInjective(res[k].column.categories)
                    /\ \A x, y \in Range(res[k].column.categories) :
                         Before(res[k].column.categories, x, y)
                           => Before(df[k].column.categories, x, y)
               ELSE res[k].column.categories = df[k].column.categories

\* The targeted column loses its unused level and keeps b before a; the
\* other column keeps its unused level.
C22_Witness ==
  /\ call.op = "drop_unused_levels"
  /\ call.target_columns.names = <<"c1">>
  /\ df[1].column.categories = <<"b", "unused", "a">>
  /\ df[1].column.values = <<"a", "b">>
  /\ df[2].column.categories = <<"a", "unused", "b">>
  /\ res[1].column.categories = <<"b", "a">>
  /\ res[2].column.categories = <<"a", "unused", "b">>

(***************************************************************************)
(* save_ggplot_to_drive: a plot is rendered to a png image and written to  *)
(* a file of the remote storage.  In this part df is the storage, call the *)
(* last call together with the storage it found, and res the image last    *)
(* saved under each file name ("" when the name was never saved).          *)
(***************************************************************************)
FileNames == {"a.png", "b.png"}

Folders == {"plots", "figs"}

\* parent_dir=None.
NoParent == ""

\* The storage holds folders and files; a file has a name, the folders it
\* lies under (none: the root) and its content.  A call can find no folder
\* or one, and no file or one older file, in the root or under a folder.
Drives ==
  { d \in [folders : {{}, {"plots"}, {"figs"}},
           files : {<<>>} \cup
             { <<[name |-> n, parents |-> ps, data |-> "png(old)"]>> :
                 n \in FileNames, ps \in {{}, {"plots"}, {"figs"}} }] :
      \A i \in 1..Len(d.files) : d.files[i].parents \subseteq d.folders }

\* drive.GetOrCreateFolder: the folder exists afterwards; its id is its name.
GetOrCreateFolder(drive, parent_dir) ==
  [drive EXCEPT !.folders = @ \cup {parent_dir}]

\* drive.FileExists: some file of the storage has this name.
FileExists(drive, file_name) ==
  \E i \in 1..Len(drive.files) : drive.files[i].name = file_name

\* drive.CreateFile: a new empty file of this name under the given parents.
CreateFile(drive, filename, parents) ==
  [drive EXCEPT !.files = Append(@, [name |-> filename, parents |-> parents, data |-> ""])]

\* drive.SaveFile: the file of this name gets the data.
SaveFile(drive, filename, data) ==
  LET named == {i \in 1..Len(drive.files) : drive.files[i].name = filename}
      first == CHOOSE i \in named : \A j \in named : i <= j
  IN  [drive EXCEPT !.files[first].data = data]

\* plotnine.ggsave into the byte stream: the png image of the plot.
ggsave(plot) == "png(" \o plot \o ")"

\* The same with the file created on every call.
save_ggplot_to_drive_always_creating(drive, plot_object, file_name, parent_dir) ==
  LET located == IF parent_dir # NoParent THEN GetOrCreateFolder(drive, parent_dir) ELSE drive
      created == CreateFile(located, file_name,
                            IF parent_dir # NoParent THEN {parent_dir} ELSE {})
  IN  SaveFile(created, file_name, ggsave(plot_object))

\* The storage after save_ggplot_to_drive(plot_object, file_name, parent_dir).
save_ggplot_to_drive(drive, plot_object, file_name, parent_dir) ==
  LET located == IF parent_dir # NoParent THEN GetOrCreateFolder(drive, parent_dir) ELSE drive
      created == IF ~FileExists(located, file_name)
                 THEN CreateFile(located, file_name,
                                 IF parent_dir # NoParent THEN {parent_dir} ELSE {})
                 ELSE located
  IN  SaveFile(created, file_name, ggsave(plot_object))

InitDrive ==
  /\ df \in Drives
  /\ call = [op |-> "none", file_name |-> "", parent_dir |-> NoParent,
             plot_object |-> "", drive |-> df]
  /\ res = [n \in FileNames |-> ""]

SaveGgplotToDrive ==
  \E plot_object \in {"p1", "p2"}, file_name \in FileNames,
     parent_dir \in {NoParent} \cup Folders :
    /\ call' = [op |-> "save_ggplot_to_drive", file_name |-> file_name,
                parent_dir |-> parent_dir, plot_object |-> plot_object, drive |-> df]
    /\ df' = save_ggplot_to_drive(df, plot_object, file_name, parent_dir)
    /\ res' = [res EXCEPT ![file_name] = ggsave(plot_object)]

SpecDrive == InitDrive /\ [][SaveGgplotToDrive]_vars

(***************************************************************************)
(* Properties of save_ggplot_to_drive.                                     *)
(***************************************************************************)
\* The files of the storage d that have the name n.
FilesNamed(d, n) == {i \in 1..Len(d.files) : d.files[i].name = n}

\* C23: after any sequence of calls the storage holds exactly one file for
\* each file name that was saved, and its content is the image of the most
\* recent call with that name; a call whose file name existed before it
\* leaves the number of files as it was.
C23_OneFilePerSavedName ==
  /\ \A n \in FileNames :
       res[n] # "" =>
         /\ Cardinality(FilesNamed(df, n)) = 1
         /\ \A i \in FilesNamed(df, n) : df.files[i].data = res[n]
  /\ (call.op = "save_ggplot_to_drive" /\ FileExists(call.drive, call.file_name))
       => Len(df.files) = Len(call.drive.files)

\* A second call with the name of a file saved before, with another plot:
\* still one file of that name, holding the later image.
C23_Witness ==
  /\ call.op = "save_ggplot_to_drive"
  /\ call.file_name = "a.png"
  /\ call.plot_object = "p2"
  /\ \E i \in FilesNamed(call.drive, "a.png") : call.drive.files[i].data = "png(p1)"
  /\ Cardinality(FilesNamed(df, "a.png")) = 1
  /\ \A i \in FilesNamed(df, "a.png") : df.files[i].data = "png(p2)"

\* C24: after a call with a parent_dir the parent folder exists, a folder
\* that existed before is not created again, and the saved file lies under
\* that folder, whatever the storage held before the call.
C24_SavedUnderParentFolder ==
  (call.op = "save_ggplot_to_drive" /\ call.parent_dir # NoParent) =>
    /\ call.parent_dir \in df.folders
    /\ df.folders = call.drive.folders \cup {call.parent_dir}
    /\ \A i \in FilesNamed(df, call.file_name) :
         call.parent_dir \in df.files[i].parents

(***************************************************************************)
(* Further properties of set_categorical on a data frame.                  *)
(***************************************************************************)
\* C25: without a value column top_n is ignored: whatever top_n, keep_other
\* and other_label are, the result is the result of the call with top_n
\* omitted, a categorical column (no error) whose rows carry the category
\* values of the input, none dropped and none relabeled.
C25_TopNIgnoredWithoutValueColumn ==
  (Called /\ ~call.value_col) =>
    /\ res = set_categorical(df, [call EXCEPT !.top_n = NoneN])
    /\ res.dtype = "category"
    /\ res.rows = recast_to_string(df).rows

\* A call without a value column, with top_n = 1 and no fallback level, on
\* three rows of three categories: all three rows and levels are there.
C25_Witness ==
  /\ Called
  /\ ~call.value_col
  /\ call.top_n = 1
  /\ ~call.keep_other
  /\ CatsOf(df.rows) = {"a", "b", "c"}
  /\ Len(res.rows) = 3
  /\ res.categories = <<"a", "b", "c">>

\* C27: whatever the arguments, every row of the result carries a category
\* value that is one of the resulting levels, every resulting level occurs in
\* at least one row, and no level is listed twice.
C27_LevelsAreTheOccurringValues ==
  Called =>
    /\ \A i \in 1..Len(res.rows) : res.rows[i].cat \in Range(res.categories)
    /\ \A l \in Range(res.categories) : \E i \in 1..Len(res.rows) : res.rows[i].cat = l
    /\ IsInjective(res.categories)

\* A categorical input with a level no row uses, truncated to one level with
\* a fallback level: the result has the two levels its rows carry.
C27_Witness ==
  /\ Called
  /\ call.value_col
  /\ call.top_n = 1
  /\ call.keep_other
  /\ df.dtype = "category"
  /\ "unused" \in Range(df.categories)
  /\ Len(res.categories) = 2
  /\ call.other_label \in Range(res.categories)
  /\ "unused" \notin Range(res.categories)

\* The number of distinct category values of the input.
DistinctCategories == Cardinality(CatsOf(recast_to_string(df).rows))

\* C28: with a value column and top_n at least the number of distinct
\* category values nothing is truncated: with keep_other true or false the
\* result is the result of the call with top_n omitted, and other_label is
\* not among its levels.
C28_LargeTopNTruncatesNothing ==
  (Called /\ call.value_col /\ call.top_n >= DistinctCategories) =>
    /\ res = set_categorical(df, [call EXCEPT !.top_n = NoneN])
    /\ call.other_label \notin Range(res.categories)

\* top_n equal to the number of distinct category values, with a fallback
\* label asked for: both levels stay and the label is no level.
C28_Witness ==
  /\ Called
  /\ call.value_col
  /\ call.keep_other
  /\ call.other_label = "new_label"
  /\ call.top_n = 2
  /\ DistinctCategories = 2
  /\ Len(res.rows) = 3
  /\ Len(res.categories) = 2

(***************************************************************************)
(* Further properties of set_categorical on a grouped data frame.          *)
(***************************************************************************)
\* The category values of group g that rows of the result still carry.
KeptInGroup(g) == CatsOf(RowsWithGrp(res.rows, g)) \cap CatsOf(RowsWithGrp(df.rows, g))

\* C26 (truncation): a grouped call with top_n = N truncates inside each
\* group: a group keeps N of its own category values (all when it has fewer),
\* none of them with a smaller aggregate inside the group than one it loses;
\* the rows of the other values are dropped, or relabeled when keep_other is
\* set; the levels are the values that the rows of the result carry, so there
\* can be up to N levels for every group.
C26_TopNInsideEachGroup ==
  (GroupedCalled /\ call.top_n >= 1) =>
    /\ \A g \in GrpsOf(df.rows) :
         LET before == RowsWithGrp(df.rows, g)
             after == RowsWithGrp(res.rows, g)
             kept == KeptInGroup(g)
         IN /\ Cardinality(kept) = Min(call.top_n, Cardinality(CatsOf(before)))
            /\ \A c \in kept : \A d \in CatsOf(before) \ kept :
                 AggGeq(Aggregate(call.aggregator, RowsWithCat(before, c)),
                        Aggregate(call.aggregator, RowsWithCat(before, d)))
            /\ after = IF call.keep_other
                       THEN relabel_others(before, SortedLabels(kept), call.other_label)
                       ELSE remove_others(before, SortedLabels(kept))
    /\ Range(res.categories) = CatsOf(res.rows)
    /\ IsInjective(res.categories)

\* Two categories of one group and one of the other, top_n = 1: the first
\* group loses a category, and two levels remain, one for each group.
C26_Witness ==
  /\ GroupedCalled
  /\ call.top_n = 1
  /\ ~call.keep_other
  /\ Cardinality(CatsOf(RowsWithGrp(df.rows, "g1"))) = 2
  /\ Cardinality(CatsOf(RowsWithGrp(df.rows, "g2"))) = 1
  /\ Len(res.rows) = 2
  /\ Len(res.categories) = 2

SmallestGroup ==
  LET sizes == {Len(RowsOfKey(df.rows, call.grouping, key)) : key \in KeysOf(df.rows, call.grouping)}
  IN  CHOOSE m \in sizes : \A k \in sizes : m <= k

\* Every group of the input has exactly k rows in the result.
EveryGroupContributes(k) ==
  \A key \in KeysOf(df.rows, call.grouping) :
    Len(RowsOfKey(res.rows, call.grouping, key)) = k

\* n = 0 gives an outcome of the call without n, the size of the smallest
\* group from every group.
ZeroAsNotGiven ==
  (call.op = "equisample" /\ call.n = 0) =>
    /\ res \in equisample(df, [call EXCEPT !.n = NoneN])
    /\ EveryGroupContributes(SmallestGroup)

\* C29 (as claimed): n = 0 is treated as n not given, and for every n >= 1
\* each group contributes exactly n rows.
C29_ZeroAsNotGivenElseExactlyN ==
  /\ ZeroAsNotGiven
  /\ (call.op = "equisample" /\ call.n >= 1) => EveryGroupContributes(call.n)

\* C29 (amended): n = 0 is treated as n not given; for n >= 1 each group
\* contributes exactly n rows when rows may repeat or no group has fewer than
\* n rows, and otherwise the call raises ValueError and returns nothing.
C29_ExactlyNWhereGroupsSuffice ==
  /\ ZeroAsNotGiven
  /\ (call.op = "equisample" /\ call.n >= 1) =>
       IF call.replace \/ call.n <= SmallestGroup
       THEN res.dtype # "ValueError" /\ EveryGroupContributes(call.n)
       ELSE res = ValueErrorRaised

\* n = 0 on groups of two rows and of one row: one row of each.
C29_Witness ==
  /\ call.op = "equisample"
  /\ call.n = 0
  /\ ~call.replace
  /\ call.grouping = <<"grp">>
  /\ Len(RowsWithGrp(df.rows, "g1")) = 2
  /\ Len(RowsWithGrp(df.rows, "g2")) = 1
  /\ Len(res.rows) = 2

(***************************************************************************)
(* Further properties of kmgt_labels.                                      *)
(***************************************************************************)
\* |num| * 1.1 > 10^p, for num = mant / 100 * 10^exp: 11 * mant > 10^(p - exp + 3),
\* where 11 * mant lies between 1100 and 10989.
PaddedAbove(num, p) ==
  LET k == (p - num.exp) + 3
  IN IF k <= 3 THEN TRUE ELSE IF k >= 5 THEN FALSE ELSE 11 * num.mant > 10000

\* floor((ceil(log10(|num| * 1.1)) - 1) / 3): the s with
\* 1000^s < |num| * 1.1 <= 1000^(s + 1).
ScaleIndex(num) ==
  CHOOSE s \in (-2)..((MaxExponent \div 3) + 2) :
    PaddedAbove(num, 3 * s) /\ ~PaddedAbove(num, (3 * s) + 3)

\* C30: a label is built with the scale index
\* floor((ceil(log10(|num| * 1.1)) - 1) / 3); a non-zero input with
\* |num| * 1.1 <= 1 has a negative index, which has no suffix, and the call
\* fails with a lookup error; the input 0 is labelled '0' without prefix and
\* suffix.
C30_NegativeScaleRaisesLookupError ==
  call.op = "kmgt_labels" =>
    /\ res.raised \in {"", "KeyError"}
    /\ res.raised = "KeyError" <=>
         \E i \in 1..Len(df) : df[i] # Zero /\ ~PaddedAbove(df[i], 0)
    /\ \A i \in 1..Len(df) :
         (df[i] # Zero /\ ~PaddedAbove(df[i], 0)) =>
           ScaleIndex(df[i]) < 0 /\ ScaleIndex(df[i]) \notin DOMAIN power_map
    /\ res.raised = "" =>
         \A i \in 1..Len(df) :
           res.labels[i] =
             IF df[i] = Zero THEN "0"
             ELSE IF ScaleIndex(df[i]) > 8
                  THEN call.prefix \o str(df[i]) \o call.suffix
                  ELSE call.prefix \o Format3g(df[i], 3 * ScaleIndex(df[i]))
                         \o power_map[ScaleIndex(df[i])] \o call.suffix

\* kmgt_labels([1230, 0.5], prefix='$'): 0.5 * 1.1 <= 1, the call fails.
C30_Witness ==
  /\ call.op = "kmgt_labels"
  /\ call.prefix = "$"
  /\ df = <<[sign |-> 1, mant |-> 123, exp |-> 3], [sign |-> 1, mant |-> 500, exp |-> -1]>>
  /\ res.raised = "KeyError"

(***************************************************************************)
(* The effect of the table operations on the table they are called on.     *)
(* Here df is the content of the object self, call the last call with the  *)
(* content self had before it, and res the object the call returned: its   *)
(* reference and its content.  An operation writes into the object its     *)
(* code assigns to; what it writes into self shows in df.                  *)
(***************************************************************************)
\* Mutant: res = self in place of res = self.copy().
copy_returning_self(ref) == ref

\* self.copy(): a new object.
copy(ref) == "copy"

\* pd.to_datetime of a date written as text.
to_datetime(text) ==
  CASE text = "2022-01-31" -> [year |-> 2022, month |-> 1, day |-> 31]
    [] text = "2021-07-01" -> [year |-> 2021, month |-> 7, day |-> 1]

\* res.loc[:, col] = pd.to_datetime(res[col]) for every target column.
to_date(t, target_columns) ==
  Tuple([k \in 1..Len(t) |->
           IF t[k].name \in Range(target_columns)
           THEN [t[k] EXCEPT !.column =
                   [dtype |-> "datetime64[ns]", categories |-> <<>>,
                    values |-> Tuple([i \in 1..Len(@.values) |-> to_datetime(@.values[i])])]]
           ELSE t[k]])

\* result = function(self); print(result); return self.  The function is a
\* selection of rows.
tee(t, a) ==
  LET result == select_rows(t, a.function)
  IN  t

\* The tables an operation is called on, by kind of table.
Tables(kind) ==
  CASE kind = "frame" -> {t \in UngroupedFrames : Len(t.rows) <= 2}
    [] kind = "grouped" -> {t \in GroupedFrames : Len(t.rows) <= 2}
    [] kind = "typed" -> TypedFrames
    [] kind = "dates" ->
         {<<[name |-> "c1", column |-> [dtype |-> "object", categories |-> <<>>, values |-> v]],
            [name |-> "c2", column |-> [dtype |-> "object", categories |-> <<>>, values |-> w]]>> :
            v \in [1..2 -> {"2022-01-31", "2021-07-01"}], w \in [1..2 -> {"2022-01-31"}]}
    [] kind = "header" -> Headers
    [] kind = "columns" -> ColumnFrames

KindOf(op) ==
  CASE op = "set_categorical" -> "frame"
    [] op \in {"drop_unused_levels", "reverse_categories"} -> "typed"
    [] op = "to_date" -> "dates"
    [] op = "flatten_columns" -> "header"
    [] op = "select_columns" -> "columns"
    [] op \in {"select_rows", "equisample", "tee"} -> "grouped"

ArgumentsOf(op) ==
  CASE op = "set_categorical" -> Arguments("set_categorical")
    [] op \in {"drop_unused_levels", "reverse_categories"} -> TargetColumns
    [] op = "to_date" -> {<<"c1">>, <<"c2">>, <<"c1", "c2">>}
    [] op = "flatten_columns" -> Separators
    [] op = "select_columns" -> ScalarRegExes
    [] op = "select_rows" -> Predicates
    [] op = "equisample" -> SampleArguments
    [] op = "tee" -> [function : Predicates, print_result : BOOLEAN]

\* What the operation can return.
Results(op, t, a) ==
  CASE op = "set_categorical" -> {set_categorical(t, a)}
    [] op = "drop_unused_levels" -> {drop_unused_levels(t, a)}
    [] op = "reverse_categories" -> {reverse_categories(t, a)}
    [] op = "to_date" -> {to_date(t, a)}
    [] op = "flatten_columns" -> {flatten_columns(t, a)}
    [] op = "select_columns" -> {select_columns(t, a)}
    [] op = "select_rows" -> {select_rows(t, a)}
    [] op = "equisample" -> equisample(t, a)
    [] op = "tee" -> {tee(t, a)}

\* The object the operation assigns to and returns: the copy of self it
\* made, the copy of the selection self[...], the frame apply built, or
\* self itself (flatten_columns without a MultiIndex, tee).
Target(op, t) ==
  CASE op \in {"set_categorical", "drop_unused_levels", "reverse_categories", "to_date"} ->
         copy("self")
    [] op = "flatten_columns" -> IF t.multi THEN copy("self") ELSE "self"
    [] op \in {"select_columns", "select_rows"} -> copy("selection")
    [] op = "equisample" -> "applied"
    [] op = "tee" -> "self"

InitEffect ==
  /\ \E kind \in {"frame", "grouped", "typed", "dates", "header", "columns"} :
       /\ df \in Tables(kind)
       /\ call = [op |-> "none", kind |-> kind]
  /\ res = [ref |-> "none", value |-> <<>>]

TableOperation(op) ==
  /\ call.op = "none"
  /\ call.kind = KindOf(op)
  /\ \E a \in ArgumentsOf(op) : \E result \in Results(op, df, a) :
       /\ call' = [op |-> op, kind |-> call.kind, arguments |-> a, self |-> df]
       /\ res' = [ref |-> Target(op, df), value |-> result]
       /\ df' = IF Target(op, df) = "self" THEN result ELSE df

SpecEffect ==
  InitEffect /\ [][\/ TableOperation("set_categorical")
                   \/ TableOperation("drop_unused_levels")
                   \/ TableOperation("reverse_categories")
                   \/ TableOperation("flatten_columns")
                   \/ TableOperation("select_columns")
                   \/ TableOperation("select_rows")
                   \/ TableOperation("to_date")
                   \/ TableOperation("equisample")
                   \/ TableOperation("tee")]_vars

\* C21: after set_categorical, drop_unused_levels, reverse_categories,
\* flatten_columns, select_columns, select_rows, to_date, equisample or tee,
\* whatever the arguments, the table the operation was called on is as it
\* was before the call: columns, header, rows, values and levels.
C21_CalledTableUnchanged ==
  call.op # "none" => df = call.self

\* drop_unused_levels removed a level in the table it returned, a copy, and
\* the table it was called on still has the level.
C21_Witness ==
  /\ call.op = "drop_unused_levels"
  /\ res.ref = "copy"
  /\ "unused" \in Range(df[1].column.categories)
  /\ "unused" \notin Range(res.value[1].column.categories)
  /\ df = call.self

====
